---- MODULE Spec2Model ----
(***************************************************************************)
(* Model of InfiniteDimensionalSystem.adaptive_convergence                 *)
(* (archive/original_src/emergence/infinite_dimensional/                   *)
(* infinite_dimensional_framework.py, lines 18-95).                        *)
(*                                                                         *)
(* A driver instance owns dimension_cutoff and convergence_history.  A     *)
(* call runs the doubling loop one iteration per step (Iterate) and        *)
(* leaves the loop through Exhaust when range(max_iterations) is used up.  *)
(*                                                                         *)
(* Results of computation_func are tagged values: Python numbers           *)
(* (integers here), one-dimensional numpy arrays of integers, a string,    *)
(* None, and the marker Raises for an invocation that raises.  The L2      *)
(* norm is kept exactly as the sum of squares it is the square root of.    *)
(*                                                                         *)
(* Model of UnifiedFramework (src/physics_emergence/core.py, lines         *)
(* 29-281).  A framework instance owns current_state and history; each     *)
(* public method is one step.  Python floats are modelled by exact         *)
(* rationals, kept in lowest terms.                                        *)
(***************************************************************************)
EXTENDS Integers, Sequences, FiniteSets

VARIABLES
    dimension_cutoff,      \* self.dimension_cutoff
    convergence_history,   \* self.convergence_history
    pc,                    \* "idle" (no call yet), "loop", "done"
    computation_func,      \* argument: function from size to result
    tolerance,             \* argument
    max_iterations,        \* argument
    dimension,             \* local
    previous_result,       \* local
    current_result,        \* local (Unbound until the first assignment)
    iteration,             \* local: the index range() hands out next
    invoked,               \* sizes passed to computation_func by this call
    warned,                \* warnings.warn calls made by this call
    outcome,               \* how the call ended
    returned,              \* the returned pair, NoReturn if none
    ncalls,                \* calls started on this instance
    history_at_call,       \* convergence_history when this call started
    current_state,         \* UnifiedFramework: self.current_state
    history,               \* UnifiedFramework: self.history
    last_call,             \* the last method called on the framework, its
                           \* arguments, and the fields as it found them
    last_return,           \* what that call returned or raised
    operations             \* method calls made on the framework

\* The variables of the InfiniteDimensionalSystem instance and its call
driver_vars == <<dimension_cutoff, convergence_history, pc, computation_func,
                 tolerance, max_iterations, dimension, previous_result,
                 current_result, iteration, invoked, warned, outcome,
                 returned, ncalls, history_at_call>>

\* The variables of the UnifiedFramework instance
framework_vars == <<current_state, history, last_call, last_return,
                    operations>>

vars == <<driver_vars, framework_vars>>

----------------------------------------------------------------------------
(* Bounds of the model *)

MaxIterations == 3

MaxCalls == 2

\* line 56: the default of max_iterations
DefaultMaxIterations == 10

Cutoffs == {5, 1000}

Tolerances == {0, 1, 2}

ReuseTolerances == {1}

----------------------------------------------------------------------------
(* Values *)

Num(n) == [t |-> "num", v |-> n, a |-> <<>>]

Arr(s) == [t |-> "arr", v |-> 0, a |-> s]

Str == [t |-> "str", v |-> 0, a |-> <<>>]

None == [t |-> "none", v |-> 0, a |-> <<>>]

Raises == [t |-> "raise", v |-> 0, a |-> <<>>]

Unbound == [t |-> "unbound", v |-> 0, a |-> <<>>]

NoReturn == [result |-> Unbound, size |-> 0]

Results ==
    {Num(0), Num(1), Arr(<<0>>), Arr(<<0, 0>>), Arr(<<1, 1>>),
     Arr(<<0, 0, 0>>), Str, None, Raises}

ReuseResults == {Num(0), Num(1), Raises}

Abs(x) == IF x < 0 THEN -x ELSE x

RECURSIVE SumAbs(_)
SumAbs(s) == IF s = <<>> THEN 0 ELSE Abs(Head(s)) + SumAbs(Tail(s))

\* Variant: the L1 norm in place of the L2 norm (its square)
SumAbsSquared(s) == SumAbs(s) * SumAbs(s)

\* line 78: the square of np.linalg.norm of a one-dimensional array
RECURSIVE SumSq(_)
SumSq(s) == IF s = <<>> THEN 0 ELSE Head(s) * Head(s) + SumSq(Tail(s))

\* Variant: the loop starts at the instance's cutoff
InitialDimensionFromCutoff == dimension_cutoff

\* line 68
InitialDimension == 10

\* Variant: the size is never doubled
NextDimensionSame(d) == d

\* line 92
NextDimension(d) == d * 2

\* The value of dimension in iteration k (k = 0, 1, ...) of the loop
RECURSIVE SizeAt(_)
SizeAt(k) == IF k <= 0 THEN InitialDimension ELSE NextDimension(SizeAt(k - 1))

\* The sizes range(m) lets a call pass to computation_func.  A
\* computation_func is given on these sizes only: no call reads it elsewhere.
SizesFor(m) == {SizeAt(k) : k \in 0..(m - 1)}

Identity(m) == [n \in SizesFor(m) |-> Num(n)]

\* The computations 1/n are held in units of 1/25600, in which 1/n is a whole
\* number for every size 10, 20, ..., 5120 and tolerance 1e-2 is 256.  abs,
\* the norm and < read the same in any unit.
UnitsPerOne == 100 * 256

HundredthTolerance == UnitsPerOne \div 100

\* computation_func = lambda n: 1 / n
Inverse(m) == [n \in SizesFor(m) |-> Num(UnitsPerOne \div n)]

\* computation_func = lambda n: np.full(n, 1 / n)
InverseArray(m) ==
    [n \in SizesFor(m) |-> Arr([i \in 1..n |-> UnitsPerOne \div n])]

DefaultFuncs == {Inverse(DefaultMaxIterations), InverseArray(DefaultMaxIterations)}

ComputeFuncs(m) == [SizesFor(m) -> Results] \cup {Identity(m)}

ReuseFuncs(m) == [SizesFor(m) -> ReuseResults]

----------------------------------------------------------------------------
(* The error of one iteration, lines 75-80.  An error is                   *)
(*   "abs"  : abs(current - previous) of two numbers, in val;              *)
(*   "norm" : np.linalg.norm of a difference, its square in sq;            *)
(*   "vec"  : abs(number - array), an array of element-wise distances;     *)
(*   "inf"  : float('inf');                                                *)
(* or the name of the exception the expression raises.                     *)

AbsError(x) == [k |-> "abs", val |-> x, sq |-> 0, vec |-> <<>>]

NormError(q) == [k |-> "norm", val |-> 0, sq |-> q, vec |-> <<>>]

VecError(s) == [k |-> "vec", val |-> 0, sq |-> 0, vec |-> s]

InfError == [k |-> "inf", val |-> 0, sq |-> 0, vec |-> <<>>]

Exc(name) == [k |-> name, val |-> 0, sq |-> 0, vec |-> <<>>]

IsException(e) == e.k \in {"TypeError", "ValueError"}

\* numpy broadcasting of two one-dimensional shapes
Broadcastable(p, q) == p = q \/ p = 1 \/ q = 1

BroadcastLen(p, q) == IF p >= q THEN p ELSE q

Elem(s, i) == IF Len(s) = 1 THEN s[1] ELSE s[i]

\* Variant: the difference of two numbers is taken without abs()
ScalarErrorSigned(cur, prev) ==
    CASE prev.t = "num" -> AbsError(cur.v - prev.v)
      [] prev.t = "arr" ->
           VecError([i \in 1..Len(prev.a) |-> Abs(cur.v - prev.a[i])])
      [] OTHER -> Exc("TypeError")

\* line 76: abs(current_result - previous_result), current a Python number
ScalarError(cur, prev) ==
    CASE prev.t = "num" -> AbsError(Abs(cur.v - prev.v))
      [] prev.t = "arr" ->
           VecError([i \in 1..Len(prev.a) |-> Abs(cur.v - prev.a[i])])
      [] OTHER -> Exc("TypeError")

\* line 78: np.linalg.norm(current_result - previous_result), current an array
ArrayError(cur, prev) ==
    CASE prev.t = "num" ->
           NormError(SumSq([i \in 1..Len(cur.a) |-> cur.a[i] - prev.v]))
      [] prev.t = "arr" ->
           IF Broadcastable(Len(cur.a), Len(prev.a))
           THEN NormError(SumSq(
                    [i \in 1..BroadcastLen(Len(cur.a), Len(prev.a)) |->
                        Elem(cur.a, i) - Elem(prev.a, i)]))
           ELSE Exc("ValueError")
      [] OTHER -> Exc("TypeError")

\* lines 75-80: the isinstance dispatch on current_result
ErrorOf(cur, prev) ==
    IF cur.t = "num" THEN ScalarError(cur, prev)
    ELSE IF cur.t = "arr" THEN ArrayError(cur, prev)
    ELSE InfError

\* Variant: the comparison of line 88 is <=
BelowToleranceInclusive(e, tol) ==
    CASE e.k = "abs" -> IF e.val <= tol THEN "yes" ELSE "no"
      [] e.k = "norm" -> IF tol >= 0 /\ e.sq <= tol * tol THEN "yes" ELSE "no"
      [] e.k = "vec" ->
           IF Len(e.vec) = 1
           THEN (IF e.vec[1] <= tol THEN "yes" ELSE "no")
           ELSE "ValueError"
      [] OTHER -> "no"

\* line 88: the truth of `error < tolerance` as the if statement takes it:
\* "yes", "no", or the exception bool() raises on an array of several elements
BelowTolerance(e, tol) ==
    CASE e.k = "abs" -> IF e.val < tol THEN "yes" ELSE "no"
      [] e.k = "norm" -> IF tol > 0 /\ e.sq < tol * tol THEN "yes" ELSE "no"
      [] e.k = "vec" ->
           IF Len(e.vec) = 1
           THEN (IF e.vec[1] < tol THEN "yes" ELSE "no")
           ELSE "ValueError"
      [] OTHER -> "no"

\* Variant: the record logs the instance's cutoff as its dimension
RecordWithCutoff(dim, err, res) ==
    [dimension |-> dimension_cutoff, error |-> err, result |-> res]

\* Variant: the record logs the previous result
RecordOfPrevious(dim, err, res) ==
    [dimension |-> dim, error |-> err, result |-> previous_result]

\* lines 82-86
Record(dim, err, res) == [dimension |-> dim, error |-> err, result |-> res]

\* Variant: the history is rebound to a list of the new record
AppendRecordReset(hist, rec) == <<rec>>

\* line 82: self.convergence_history.append(...)
AppendRecord(hist, rec) == Append(hist, rec)

\* Variant: no warning on the way out of the loop
WarnNever(count) == count

\* line 94: warnings.warn(...)
Warn(count) == count + 1

\* Variant: the loop starts with a number as the previous result
InitialPreviousZero == Num(0)

\* line 69: previous_result = None
InitialPrevious == None

\* line 71: range(max_iterations) has another index to hand out
LoopContinues(i, m) == i < m

\* Variant: the size returned on success is the doubled one
ConvergedReturnDoubled(cur, dim) == [result |-> cur, size |-> dim * 2]

\* Variant: the success path returns nothing
ConvergedReturnNothing(cur, dim) == NoReturn

\* Variant: the success path returns the previous result
ConvergedReturnPrevious(cur, dim) == [result |-> previous_result, size |-> dim]

\* line 89
ConvergedReturn(cur, dim) == [result |-> cur, size |-> dim]

\* Variant: the size returned after the loop is the last one used
ExhaustedReturnLastUsed(cur, dim) == [result |-> cur, size |-> dim \div 2]

\* line 95
ExhaustedReturn(cur, dim) == [result |-> cur, size |-> dim]

----------------------------------------------------------------------------
(* UnifiedFramework: numbers *)

\* Steps simulate_cycle is asked for: 0 .. MaxDuration
MaxDuration == 6

\* Method calls made on one framework
MaxOperations == 2

RECURSIVE GCD(_, _)
GCD(a, b) == IF b = 0 THEN a ELSE GCD(b, a % b)

\* The rational n / d (d # 0) in lowest terms, with a positive denominator
Rat(n, d) ==
    LET sign == IF d < 0 THEN -1 ELSE 1
        g == GCD(Abs(n), Abs(d))
    IN  [n |-> (sign * n) \div g, d |-> (sign * d) \div g]

Whole(k) == [n |-> k, d |-> 1]

\* x + y over the least common denominator
RAdd(x, y) ==
    LET g == GCD(x.d, y.d)
    IN  Rat(x.n * (y.d \div g) + y.n * (x.d \div g), (x.d \div g) * y.d)

RNeg(x) == [n |-> 0 - x.n, d |-> x.d]

RSub(x, y) == RAdd(x, RNeg(y))

\* x * y, common factors taken out before multiplying
RMul(x, y) ==
    LET g1 == GCD(Abs(x.n), y.d)
        g2 == GCD(Abs(y.n), x.d)
    IN  [n |-> (x.n \div g1) * (y.n \div g2),
         d |-> (x.d \div g2) * (y.d \div g1)]

\* x / y for y # 0
RDiv(x, y) ==
    RMul(x, IF y.n < 0 THEN [n |-> 0 - y.d, d |-> 0 - y.n]
                       ELSE [n |-> y.d, d |-> y.n])

RLess(x, y) ==
    LET g == GCD(x.d, y.d)
    IN  x.n * (y.d \div g) < y.n * (x.d \div g)

RLeq(x, y) == ~RLess(y, x)

RMin(x, y) == IF RLess(y, x) THEN y ELSE x

RMax(x, y) == IF RLess(x, y) THEN y ELSE x

RAbs(x) == [n |-> Abs(x.n), d |-> x.d]

\* int(x) for x >= 0
RInt(x) == x.n \div x.d

\* np.clip(x, lo, hi)
RClip(x, lo, hi) == RMin(RMax(x, lo), hi)

\* The number "{:.2f}" prints for x >= 0: the nearest hundredth, a tie
\* going to the even one
Round2(x) ==
    LET lo == (100 * x.n) \div x.d
        rest == (100 * x.n) % x.d
        up == 2 * rest > x.d \/ (2 * rest = x.d /\ lo % 2 = 1)
    IN  Rat(IF up THEN lo + 1 ELSE lo, 100)

\* A formatted string: its template and the numbers printed into it
Text(template, numbers) == [template |-> template, numbers |-> numbers]

----------------------------------------------------------------------------
(* UnifiedFramework: DimensionalState and the methods' computations *)

\* lines 29-35: the dataclass
DimensionalState(dim, complexity, coherence, description) ==
    [dimension |-> dim, complexity |-> complexity, coherence |-> coherence,
     description |-> description]

\* lines 37-40
unity_distance(state) == RAbs(RMul(state.dimension, state.complexity))

\* lines 42-46
emergence_potential(state) ==
    RMul(RMul(state.complexity, RSub(Whole(1), state.complexity)),
         state.coherence)

\* lines 61-66
StandardState ==
    DimensionalState(Whole(3), Rat(1, 2), Rat(7, 10),
                     Text("Standard physical reality", <<>>))

\* line 244
UnityState == DimensionalState(Whole(0), Whole(0), Whole(1), Text("Unity", <<>>))

\* lines 206-221
describe_dimension(dim) ==
    CASE dim = Whole(0) ->
           Text("Unity: Pure undifferentiated potential", <<>>)
      [] dim # Whole(0) /\ RLeq(dim, Whole(3)) ->
           Text("Physical: {}D spatial reality", <<dim>>)
      [] RLess(Whole(3), dim) /\ RLeq(dim, Whole(6)) ->
           Text("Temporal: {}D including time dimensions", <<dim>>)
      [] RLess(Whole(6), dim) /\ RLeq(dim, Whole(9)) ->
           Text("Energetic: {}D energy-information space", <<dim>>)
      [] dim = Whole(10) ->
           Text("Consciousness: Aware observer dimension", <<>>)
      [] RLess(Whole(9), dim) /\ dim # Whole(10) /\ RLess(dim, Whole(100)) ->
           Text("Higher: {}D expanded reality", <<dim>>)
      [] OTHER ->
           Text("Infinite: Approaching unity through maximum complexity",
                <<>>)

\* lines 184-189.  At 10 the sigmoid is 1 / (1 + exp(0)) = 1/2; above 10 it
\* is irrational and has no value here: TransitionTargets stays within
\* 0 .. 10, and so does every dimension a transition starts from.
ComplexityAt(dim) ==
    CASE dim = Whole(0) -> Whole(0)
      [] dim # Whole(0) /\ RLess(dim, Whole(10)) -> RDiv(dim, Whole(10))
      [] dim = Whole(10) -> Rat(1, 2)

\* line 192
CoherenceAt(complexity) == RSub(Whole(1), RMul(Rat(1, 2), complexity))

\* lines 183-199: the state built for one step of a transition
TransitionState(dim) ==
    DimensionalState(dim, ComplexityAt(dim), CoherenceAt(ComplexityAt(dim)),
                     describe_dimension(dim))

\* np.linspace(start, stop, num) for num >= 1: start alone when num = 1,
\* otherwise num evenly spaced numbers of which the last is stop itself
Linspace(start, stop, num) ==
    [i \in 1..num |->
        IF i = 1 THEN start
        ELSE IF i = num THEN stop
        ELSE RAdd(start, RMul(Whole(i - 1),
                              RDiv(RSub(stop, start), Whole(num - 1))))]

\* line 179
StepCount(current, target) == RInt(RAbs(RSub(target, current))) + 1

\* lines 174-180
Steps(current, target, method) ==
    IF method = "direct"
    THEN <<current, target>>
    ELSE Linspace(current, target, StepCount(current, target))

\* lines 171-200: the path dimensional_transition builds
TransitionPath(current, target, method) ==
    LET steps == Steps(current, target, method)
    IN  [i \in 1..Len(steps) |-> TransitionState(steps[i])]

\* Variant: only the state reached is recorded
ExtendHistoryWithLast(h, path) == Append(h, path[Len(path)])

\* Variant: the transition is not recorded
ExtendHistoryNothing(h, path) == h

\* line 203: self.history.extend(path)
ExtendHistory(h, path) == h \o path

\* Variant: the return strength is added
ReturnFactorGrowing(return_strength) == RAdd(Whole(1), return_strength)

\* lines 123-124: (1 - return_strength)
ReturnFactor(return_strength) == RSub(Whole(1), return_strength)

\* lines 117-121
ReturnStrength(current_dimension, recognition_level) ==
    LET return_strength == RMul(recognition_level, Rat(1, 10))
    IN  IF RLess(Whole(10), current_dimension)
        THEN RMul(return_strength, Whole(2))
        ELSE return_strength

\* lines 101-132; state is self.current_state
return_dynamics(state, current_dimension, recognition_level) ==
    LET return_strength == ReturnStrength(current_dimension, recognition_level)
    IN  DimensionalState(
            RMul(current_dimension, ReturnFactor(return_strength)),
            RMul(state.complexity, ReturnFactor(return_strength)),
            RMin(Whole(1), RAdd(state.coherence,
                                RMul(recognition_level, Rat(1, 10)))),
            Text("Returning toward unity (recognition: {:.2f})",
                 <<Round2(recognition_level)>>))

\* lines 134-155
emergence_measure(lower_state, higher_state) ==
    LET differentiation ==
            RAbs(RSub(higher_state.complexity, lower_state.complexity))
        integration == RMin(higher_state.coherence, lower_state.coherence)
        novelty == RSub(emergence_potential(higher_state),
                        emergence_potential(lower_state))
    IN  RClip(RAdd(RMul(differentiation, integration), novelty),
              Whole(0), Whole(1))

\* lines 235-241
NoMetrics ==
    [dimension |-> <<>>, complexity |-> <<>>, coherence |-> <<>>,
     unity_distance |-> <<>>, emergence_potential |-> <<>>]

\* lines 275-279
Track(metrics, state) ==
    [dimension |-> Append(metrics.dimension, state.dimension),
     complexity |-> Append(metrics.complexity, state.complexity),
     coherence |-> Append(metrics.coherence, state.coherence),
     unity_distance |-> Append(metrics.unity_distance, unity_distance(state)),
     emergence_potential |->
         Append(metrics.emergence_potential, emergence_potential(state))]

\* lines 259-266: the state of step t of the emanation phase
EmanationState(t, duration) ==
    LET progress == Rat(t, duration \div 2)
        target_dim == RMul(progress, Whole(12))
    IN  DimensionalState(target_dim,
                         RMin(Whole(1), RDiv(target_dim, Whole(12))),
                         RMax(Rat(3, 10),
                              RSub(Whole(1), RDiv(target_dim, Whole(20)))),
                         describe_dimension(target_dim))

\* lines 254-256 and 269-272: the state of step t of the return phase
ReturnState(state, t, duration) ==
    LET recognition == Rat(t - duration \div 2, duration \div 2)
    IN  return_dynamics(state, state.dimension, recognition)

\* lines 246-281: the loop from step t on.  The division of line 254 by
\* duration // 2 = 0 raises ZeroDivisionError.
RECURSIVE SimulateFrom(_, _, _, _)
SimulateFrom(t, duration, state, metrics) ==
    IF t >= duration
    THEN [state |-> state, metrics |-> metrics, raised |-> "none"]
    ELSE IF t < duration \div 2
    THEN LET next == EmanationState(t, duration)
         IN  SimulateFrom(t + 1, duration, next, Track(metrics, next))
    ELSE IF duration \div 2 = 0
    THEN [state |-> state, metrics |-> metrics,
          raised |-> "ZeroDivisionError"]
    ELSE LET next == ReturnState(state, t, duration)
         IN  SimulateFrom(t + 1, duration, next, Track(metrics, next))

\* lines 235-281
simulate_cycle(duration) == SimulateFrom(0, duration, UnityState, NoMetrics)

\* Arguments the model calls the methods with
TransitionTargets ==
    {Whole(0), Rat(1, 2), Whole(3), Rat(7, 2), Whole(6), Whole(10)}

Methods == {"gradual", "direct"}

Durations == 0..MaxDuration

ReturnDimensions == {Whole(0), Whole(5), Whole(12)}

RecognitionLevels == {Whole(0), Rat(1, 2), Whole(1)}

EmanationSizes == {0, 12}

\* A call: the method, its arguments, and self.current_state and
\* self.history as the call found them
CallOf(name, args) ==
    [name |-> name, args |-> args, state_before |-> current_state,
     history_before |-> history]

Returned(kind, value) == [kind |-> kind, value |-> value]

\* __init__, lines 59-67
FrameworkInit ==
    /\ current_state = StandardState
    /\ history = <<StandardState>>
    /\ last_call = [name |-> "__init__", args |-> <<>>,
                    state_before |-> StandardState,
                    history_before |-> <<StandardState>>]
    /\ last_return = Returned("none", <<>>)
    /\ operations = 0

----------------------------------------------------------------------------
(* State machine *)

\* __init__, lines 23-31; FrameworkInit is the new UnifiedFramework beside it
Init ==
    /\ dimension_cutoff \in Cutoffs
    /\ convergence_history = <<>>
    /\ pc = "idle"
    /\ computation_func = <<>>
    /\ tolerance = 0
    /\ max_iterations = 0
    /\ dimension = 0
    /\ previous_result = None
    /\ current_result = Unbound
    /\ iteration = 0
    /\ invoked = <<>>
    /\ warned = 0
    /\ outcome = "none"
    /\ returned = NoReturn
    /\ ncalls = 0
    /\ history_at_call = <<>>
    /\ FrameworkInit

\* Entry of adaptive_convergence, lines 54-69
Enter(f, tol, m) ==
    /\ computation_func' = f
    /\ tolerance' = tol
    /\ max_iterations' = m
    /\ dimension' = InitialDimension
    /\ previous_result' = InitialPrevious
    /\ current_result' = Unbound
    /\ iteration' = 0
    /\ invoked' = <<>>
    /\ warned' = 0
    /\ outcome' = "none"
    /\ returned' = NoReturn
    /\ ncalls' = ncalls + 1
    /\ history_at_call' = convergence_history
    /\ pc' = "loop"
    /\ UNCHANGED <<dimension_cutoff, convergence_history>>
    /\ UNCHANGED framework_vars

\* The first call on a fresh instance
Call ==
    /\ pc = "idle"
    /\ \E m \in (-1)..MaxIterations :
         \E f \in ComputeFuncs(m) :
           \E tol \in Tolerances : Enter(f, tol, m)

\* The first call on a fresh instance, max_iterations left at its default
CallDefault ==
    /\ pc = "idle"
    /\ \E f \in DefaultFuncs :
         Enter(f, HundredthTolerance, DefaultMaxIterations)

\* Any call on an instance, fresh or used
CallAgain ==
    /\ pc \in {"idle", "done"}
    /\ ncalls < MaxCalls
    /\ \E m \in 0..MaxIterations :
         \E f \in ReuseFuncs(m) :
           \E tol \in ReuseTolerances : Enter(f, tol, m)

\* Variant: whatever is raised in the loop body is wrapped in a ValueError
AbortWrapped(exc) ==
    /\ pc' = "done"
    /\ outcome' = "ValueError"
    /\ UNCHANGED <<dimension, previous_result, iteration, returned>>

\* How an iteration leaves the loop body
Abort(exc) ==
    /\ pc' = "done"
    /\ outcome' = exc
    /\ UNCHANGED <<dimension, previous_result, iteration, returned>>

\* lines 91-92 and the next index of range()
Advance ==
    /\ previous_result' = current_result'
    /\ dimension' = NextDimension(dimension)
    /\ iteration' = iteration + 1
    /\ UNCHANGED <<pc, outcome, returned>>

\* One pass through the loop body, lines 71-92
Iterate ==
    /\ pc = "loop"
    /\ LoopContinues(iteration, max_iterations)
    /\ invoked' = Append(invoked, dimension)
    /\ UNCHANGED <<dimension_cutoff, computation_func, tolerance,
                   max_iterations, warned, ncalls, history_at_call>>
    /\ UNCHANGED framework_vars
    /\ LET r == computation_func[dimension] IN
       IF r = Raises
       THEN /\ Abort("ComputeError")
            /\ UNCHANGED <<current_result, convergence_history>>
       ELSE /\ current_result' = r
            /\ IF previous_result = None
               THEN /\ Advance
                    /\ UNCHANGED convergence_history
               ELSE LET error == ErrorOf(r, previous_result) IN
                    IF IsException(error)
                    THEN /\ Abort(error.k)
                         /\ UNCHANGED convergence_history
                    ELSE /\ convergence_history' =
                              AppendRecord(convergence_history,
                                           Record(dimension, error, r))
                         /\ LET below == BelowTolerance(error, tolerance) IN
                            CASE below = "yes" ->
                                   /\ returned' = ConvergedReturn(r, dimension)
                                   /\ outcome' = "converged"
                                   /\ pc' = "done"
                                   /\ UNCHANGED <<dimension, previous_result,
                                                  iteration>>
                              [] below = "no" -> Advance
                              [] OTHER -> Abort(below)

\* range(max_iterations) is used up, lines 94-95
Exhaust ==
    /\ pc = "loop"
    /\ ~LoopContinues(iteration, max_iterations)
    /\ warned' = Warn(warned)
    /\ pc' = "done"
    /\ IF current_result = Unbound
       THEN /\ outcome' = "UnboundLocalError"
            /\ UNCHANGED returned
       ELSE /\ outcome' = "exhausted"
            /\ returned' = ExhaustedReturn(current_result, dimension)
    /\ UNCHANGED <<dimension_cutoff, convergence_history, computation_func,
                   tolerance, max_iterations, dimension, previous_result,
                   current_result, iteration, invoked, ncalls,
                   history_at_call>>
    /\ UNCHANGED framework_vars

\* One call on a fresh instance, over every computation_func of ComputeFuncs
Next == Call \/ CallDefault \/ Iterate \/ Exhaust

Spec == Init /\ [][Next]_vars

\* Up to MaxCalls calls on one instance, over ReuseFuncs
NextReuse == CallAgain \/ Iterate \/ Exhaust

SpecReuse == Init /\ [][NextReuse]_vars

----------------------------------------------------------------------------
(* UnifiedFramework: the methods *)

\* dimensional_transition, lines 157-204
DimensionalTransition ==
    /\ operations < MaxOperations
    /\ \E target_dimension \in TransitionTargets, method \in Methods :
         LET path == TransitionPath(current_state.dimension,
                                    target_dimension, method)
         IN  /\ current_state' = path[Len(path)]
             /\ history' = ExtendHistory(history, path)
             /\ last_call' = CallOf("dimensional_transition",
                                    <<target_dimension, method>>)
             /\ last_return' = Returned("path", path)
    /\ operations' = operations + 1
    /\ UNCHANGED driver_vars

\* return_dynamics, lines 101-132: it builds a state and stores nothing
ReturnDynamics ==
    /\ operations < MaxOperations
    /\ \E current_dimension \in ReturnDimensions,
          recognition_level \in RecognitionLevels :
         /\ last_call' = CallOf("return_dynamics",
                                <<current_dimension, recognition_level>>)
         /\ last_return' =
                Returned("state", return_dynamics(current_state,
                                                  current_dimension,
                                                  recognition_level))
    /\ operations' = operations + 1
    /\ UNCHANGED <<current_state, history>>
    /\ UNCHANGED driver_vars

\* emanation_pattern, lines 69-99: it reads and writes no field.  The array
\* it returns has max_dimensions + 1 entries; their values are exponentials
\* and are not represented.
EmanationPattern ==
    /\ operations < MaxOperations
    /\ \E max_dimensions \in EmanationSizes :
         /\ last_call' = CallOf("emanation_pattern", <<max_dimensions>>)
         /\ last_return' = Returned("array", max_dimensions + 1)
    /\ operations' = operations + 1
    /\ UNCHANGED <<current_state, history>>
    /\ UNCHANGED driver_vars

\* emergence_measure, lines 134-155, on states the framework holds
EmergenceMeasure ==
    /\ operations < MaxOperations
    /\ \E lower_state \in {current_state, history[1]},
          higher_state \in {current_state, history[Len(history)]} :
         /\ last_call' = CallOf("emergence_measure",
                                <<lower_state, higher_state>>)
         /\ last_return' =
                Returned("float", emergence_measure(lower_state,
                                                    higher_state))
    /\ operations' = operations + 1
    /\ UNCHANGED <<current_state, history>>
    /\ UNCHANGED driver_vars

\* simulate_cycle, lines 223-281
SimulateCycle ==
    /\ operations < MaxOperations
    /\ \E duration \in Durations :
         LET run == simulate_cycle(duration)
         IN  /\ current_state' = run.state
             /\ last_call' = CallOf("simulate_cycle", <<duration>>)
             /\ last_return' =
                    IF run.raised = "none"
                    THEN Returned("metrics", run.metrics)
                    ELSE Returned("raise", run.raised)
    /\ operations' = operations + 1
    /\ UNCHANGED history
    /\ UNCHANGED driver_vars

\* Up to MaxOperations method calls on a new framework, in any order
NextFramework ==
    \/ DimensionalTransition
    \/ ReturnDynamics
    \/ EmanationPattern
    \/ EmergenceMeasure
    \/ SimulateCycle

SpecFramework == Init /\ [][NextFramework]_vars

----------------------------------------------------------------------------
(* Vocabulary of the properties *)

Done == pc = "done"

\* The records the running (or last) call appended
AppendedByCall ==
    SubSeq(convergence_history, Len(history_at_call) + 1,
           Len(convergence_history))

\* The value computation_func gave at the k-th invocation of this call
ResultAt(k) == computation_func[invoked[k]]

\* The iteration at size s finds its result within tolerance of the one
\* at size s / 2
Stabilized(s) ==
    LET cur == computation_func[s]
        prev == computation_func[s \div 2]
    IN  /\ prev # None
        /\ ~IsException(ErrorOf(cur, prev))
        /\ BelowTolerance(ErrorOf(cur, prev), tolerance) = "yes"

IsPrefix(s, t) == Len(s) <= Len(t) /\ SubSeq(t, 1, Len(s)) = s

ScalarFunc == \A s \in DOMAIN computation_func : computation_func[s].t = "num"

----------------------------------------------------------------------------
(* Properties *)

\* C1: a call that returns through the success path returns the smallest
\* size s of 20, 40, 80, ... at which the result at s is within tolerance
\* of the result at s / 2, together with the result at s.
C1_SmallestStableSize ==
    outcome = "converged" =>
        /\ returned.size \in {10 * 2^k : k \in 1..(max_iterations - 1)}
        /\ Stabilized(returned.size)
        /\ \A k \in 1..(max_iterations - 1) :
               10 * 2^k < returned.size => ~Stabilized(10 * 2^k)
        /\ returned.result = computation_func[returned.size]

C1_Witness ==
    /\ outcome = "converged"
    /\ returned.size = 40
    /\ returned.result.t = "arr"

\* C2 (as claimed): a call that uses up max_iterations returns the argument
\* of its last computation_func invocation and the value that invocation gave.
C2_ReturnsLastSizeUsed ==
    outcome = "exhausted" =>
        /\ returned.size = invoked[Len(invoked)]
        /\ returned.result = ResultAt(Len(invoked))

C4_StringAndNumberUnbounded ==
    LET k == Len(invoked) IN
    (k >= 2 /\ {ResultAt(k).t, ResultAt(k - 1).t} = {"str", "num"})
        => outcome \notin {"TypeError", "converged"}

\* C5 (as claimed): an iteration that compares two arrays of different
\* shapes does not fail and does not converge: its error is unbounded.
C5_ShapeMismatchUnbounded ==
    LET k == Len(invoked) IN
    (k >= 2 /\ ResultAt(k).t = "arr" /\ ResultAt(k - 1).t = "arr"
            /\ Len(ResultAt(k).a) # Len(ResultAt(k - 1).a))
        => /\ outcome \notin {"ValueError", "TypeError", "converged"}
           /\ AppendedByCall # <<>>
           /\ AppendedByCall[Len(AppendedByCall)].error = InfError

\* C6: a call that runs out of iterations has warned exactly once, a call
\* that returned through the success path has not warned.
C6_OneWarningOnExhaustion ==
    /\ outcome = "converged" => warned = 0
    /\ (Done /\ Len(invoked) >= max_iterations
             /\ outcome \notin {"converged", "ComputeError", "TypeError",
                                "ValueError"})
           => warned = 1

C6_Witness ==
    /\ Done
    /\ max_iterations = 3
    /\ Len(invoked) = 3
    /\ outcome = "exhausted"
    /\ warned = 1

\* C7: with max_iterations >= 1 and a computation_func that returns numbers,
\* a call invokes computation_func at most max_iterations times, can always
\* take its next step while it runs, and ends by returning a pair of a
\* result and a size, never by raising.
C7_ScalarCallsReturn ==
    (pc # "idle" /\ max_iterations >= 1 /\ ScalarFunc) =>
        /\ Len(invoked) <= max_iterations
        /\ pc = "loop" =>
               /\ iteration = Len(invoked)
               /\ ENABLED (Iterate \/ Exhaust)
        /\ Done =>
               /\ outcome \in {"converged", "exhausted"}
               /\ returned.result.t = "num"
               /\ returned.size \in {10 * 2^k : k \in 0..max_iterations}

C7_Witness ==
    /\ Done
    /\ max_iterations = 3
    /\ ScalarFunc
    /\ outcome = "exhausted"
    /\ Len(invoked) = 3

\* C8: no step removes, reorders or changes a record of
\* convergence_history: the history before a step is a prefix of the
\* history after it, across calls that converge, run out or are aborted.
C8_HistoryOnlyGrows ==
    [][IsPrefix(convergence_history, convergence_history')]_vars

C8_Witness ==
    /\ ncalls = 2
    /\ Done
    /\ outcome = "ComputeError"
    /\ history_at_call # <<>>
    /\ Len(convergence_history) > Len(history_at_call)

\* C9 (as claimed): a call in which computation_func never raises appends
\* one record less than it made invocations, max_iterations - 1 records
\* when it runs out of iterations, and none in its first iteration.
C9_OneRecordPerLaterIteration ==
    /\ (Done /\ max_iterations >= 1 /\ outcome # "ComputeError")
           => Len(AppendedByCall) = Len(invoked) - 1
    /\ outcome = "exhausted" => Len(AppendedByCall) = max_iterations - 1
    /\ Len(invoked) <= 1 => AppendedByCall = <<>>

\* C10: the k-th invocation of a call (k = 0, 1, ...) gets size 10 * 2^k,
\* whatever dimension_cutoff is and whatever calls came before.
C10_SizesDouble ==
    /\ \A k \in 1..Len(invoked) : invoked[k] = 10 * 2^(k - 1)
    /\ pc = "loop" => dimension = 10 * 2^Len(invoked)

C10_Witness ==
    /\ ncalls = 2
    /\ history_at_call # <<>>
    /\ invoked = <<10, 20, 40>>

\* C11: a call invokes computation_func once per loop iteration, at sizes
\* that strictly increase, so never twice at one size; a later call on the
\* same instance starts with no result held over and invokes again from
\* size 10, and the result a call holds is the one its own latest
\* invocation gave.
C11_OneInvocationPerSize ==
    /\ \A j, k \in 1..Len(invoked) : j < k => invoked[j] < invoked[k]
    /\ pc = "loop" => Len(invoked) = iteration
    /\ (pc = "loop" /\ invoked = <<>>)
           => (previous_result = None /\ current_result = Unbound)
    /\ invoked # <<>> =>
           /\ invoked[1] = 10
           /\ IF ResultAt(Len(invoked)) = Raises
              THEN current_result =
                       (IF Len(invoked) = 1 THEN Unbound
                        ELSE ResultAt(Len(invoked) - 1))
              ELSE current_result = ResultAt(Len(invoked))
    /\ (Done /\ outcome = "exhausted") => Len(invoked) = max_iterations

C11_Witness ==
    /\ ncalls = 2
    /\ Done
    /\ outcome = "exhausted"
    /\ history_at_call # <<>>
    /\ invoked = <<10, 20, 40>>

\* C12: a call that finds an error below tolerance ends in that iteration:
\* it returns the result and the size of its latest invocation, the size
\* not doubled, and a call still running has met no such iteration.
C12_ReturnsAtFirstSuccess ==
    /\ outcome = "converged" =>
           /\ Done
           /\ Len(invoked) >= 2
           /\ returned.size = invoked[Len(invoked)]
           /\ returned.result = ResultAt(Len(invoked))
           /\ dimension = invoked[Len(invoked)]
           /\ Stabilized(invoked[Len(invoked)])
    /\ pc = "loop" => \A k \in 2..Len(invoked) : ~Stabilized(invoked[k])

C12_Witness ==
    /\ outcome = "converged"
    /\ max_iterations = 3
    /\ invoked = <<10, 20>>
    /\ returned.result = Num(1)

\* The error is exactly the tolerance
ErrorEqualsTolerance(e, tol) ==
    \/ e.k = "abs" /\ e.val = tol
    \/ e.k = "norm" /\ tol >= 0 /\ e.sq = tol * tol
    \/ e.k = "vec" /\ Len(e.vec) = 1 /\ e.vec[1] = tol

\* C13: an iteration whose error equals tolerance does not converge: the
\* call goes on to the next size or leaves the loop unconverged.
C13_StrictComparison ==
    (AppendedByCall # <<>>
        /\ AppendedByCall[Len(AppendedByCall)].dimension
               = invoked[Len(invoked)]
        /\ ErrorEqualsTolerance(AppendedByCall[Len(AppendedByCall)].error,
                                tolerance))
        => /\ outcome \in {"none", "exhausted"}
           /\ dimension = 2 * invoked[Len(invoked)]
           /\ iteration = Len(invoked)

C13_Witness ==
    /\ pc = "loop"
    /\ tolerance = 1
    /\ Len(AppendedByCall) = 1
    /\ AppendedByCall[1].error = NormError(1)
    /\ iteration = 2
    /\ dimension = 40

\* The call computation_func = 1/n, tolerance = 1e-2, max_iterations left
\* at its default
InverseCall ==
    /\ pc # "idle"
    /\ computation_func = Inverse(DefaultMaxIterations)
    /\ tolerance = HundredthTolerance
    /\ max_iterations = DefaultMaxIterations

\* C14 (as claimed): with computation_func = 1/n and tolerance 1e-2 the call
\* returns size 80, the first size that passes, size 40 being the last
\* that fails.
C14_FirstPassingSizeIs80 ==
    (InverseCall /\ Done) =>
        /\ outcome = "converged"
        /\ returned.size = 80
        /\ invoked = <<10, 20, 40, 80>>

\* C14 (amended): with computation_func = 1/n and tolerance 1e-2 the call
\* returns size 160 with the result 1/160: the errors are 1/20 at size 20,
\* 1/40 at size 40 and 1/80 = 0.0125 at size 80, none below 1e-2, and
\* 1/160 = 0.00625 at size 160, the first below 1e-2.
C14_FirstPassingSizeIs160 ==
    (InverseCall /\ Done) =>
        /\ outcome = "converged"
        /\ returned = [result |-> Num(UnitsPerOne \div 160), size |-> 160]
        /\ invoked = <<10, 20, 40, 80, 160>>
        /\ Len(AppendedByCall) = 4
        /\ \A j \in 1..4 :
               /\ AppendedByCall[j].dimension = 10 * 2^j
               /\ AppendedByCall[j].error = AbsError(UnitsPerOne \div (10 * 2^j))
        /\ UnitsPerOne \div 80 >= HundredthTolerance
        /\ UnitsPerOne \div 160 < HundredthTolerance

C14_Witness ==
    /\ InverseCall
    /\ Done
    /\ Len(invoked) = 5
    /\ warned = 0

\* C15 (as claimed): with computation_func(n) an array of n entries 1/n,
\* every iteration at a size n >= 20 records the error
\* sqrt(n) * |1/n - 1/(n/2)|, whose square is n * (1/n - 1/(n/2))^2.
C15_ArrayErrorIsScaledDifference ==
    (pc # "idle"
        /\ computation_func = InverseArray(DefaultMaxIterations))
        => \A k \in 2..Len(invoked) :
               \E j \in 1..Len(AppendedByCall) :
                   LET n == invoked[k]
                       diff == UnitsPerOne \div n - UnitsPerOne \div (n \div 2)
                   IN  /\ AppendedByCall[j].dimension = n
                       /\ AppendedByCall[j].error = NormError(n * diff * diff)

\* The sum over i = 1..n of (a[i] - b[i])^2
RECURSIVE SquaredDistanceUpTo(_, _, _)
SquaredDistanceUpTo(a, b, n) ==
    IF n = 0 THEN 0
    ELSE (a[n] - b[n]) * (a[n] - b[n]) + SquaredDistanceUpTo(a, b, n - 1)

\* C16: when the latest two results are arrays of one shape, the error
\* recorded and compared with tolerance is the Euclidean norm of their
\* element-wise difference (the square root of the sum of the squared
\* differences); when they are numbers it is the absolute difference.
C16_EuclideanNormOrAbsolute ==
    LET k == Len(invoked) IN
    (k >= 2 /\ ResultAt(k).t = ResultAt(k - 1).t
            /\ ResultAt(k).t \in {"arr", "num"}
            /\ Len(ResultAt(k).a) = Len(ResultAt(k - 1).a))
        => LET cur == ResultAt(k)
               prev == ResultAt(k - 1)
               sq == SquaredDistanceUpTo(cur.a, prev.a, Len(cur.a))
               diff == IF cur.v >= prev.v THEN cur.v - prev.v
                       ELSE prev.v - cur.v
               last == AppendedByCall[Len(AppendedByCall)]
           IN  /\ AppendedByCall # <<>>
               /\ last.dimension = invoked[k]
               /\ cur.t = "arr" =>
                      /\ last.error = NormError(sq)
                      /\ outcome = "converged"
                             <=> (tolerance > 0 /\ sq < tolerance * tolerance)
               /\ cur.t = "num" =>
                      /\ last.error = AbsError(diff)
                      /\ outcome = "converged" <=> diff < tolerance

C16_Witness ==
    /\ outcome = "converged"
    /\ tolerance = 2
    /\ invoked = <<10, 20, 40>>
    /\ ResultAt(3) = Arr(<<1, 1>>)
    /\ AppendedByCall[Len(AppendedByCall)].error = NormError(2)

\* What a call on a fresh instance ends with, as a function of its three
\* arguments alone: i counts the iterations made, prev and cur are the
\* results held, hist the records appended so far.
RECURSIVE EndOfRun(_, _, _, _, _, _, _)
EndOfRun(f, tol, m, i, prev, cur, hist) ==
    LET dim == 10 * 2^i
        end(o, ret, h) == [outcome |-> o, returned |-> ret, history |-> h]
    IN  IF i >= m
        THEN IF cur = Unbound
             THEN end("UnboundLocalError", NoReturn, hist)
             ELSE end("exhausted", [result |-> cur, size |-> dim], hist)
        ELSE LET r == f[dim] IN
             IF r = Raises THEN end("ComputeError", NoReturn, hist)
             ELSE IF prev = None THEN EndOfRun(f, tol, m, i + 1, r, r, hist)
             ELSE LET e == ErrorOf(r, prev) IN
                  IF IsException(e) THEN end(e.k, NoReturn, hist)
                  ELSE LET h == Append(hist, [dimension |-> dim, error |-> e,
                                              result |-> r])
                           below == BelowTolerance(e, tol)
                       IN  CASE below = "yes" ->
                                  end("converged", [result |-> r, size |-> dim], h)
                             [] below = "no" ->
                                  EndOfRun(f, tol, m, i + 1, r, r, h)
                             [] OTHER -> end(below, NoReturn, h)

\* C17: what a call on a fresh instance returns (or raises) and the history
\* it leaves are determined by computation_func, tolerance and
\* max_iterations alone, so two fresh instances given the same three
\* arguments end with the same pair and the same history, record by record.
C17_OutcomeIsFunctionOfArguments ==
    (Done /\ history_at_call = <<>>) =>
        [outcome |-> outcome, returned |-> returned,
         history |-> convergence_history]
            = EndOfRun(computation_func, tolerance, max_iterations,
                       0, None, Unbound, <<>>)

C17_Witness ==
    /\ Done
    /\ dimension_cutoff = 5
    /\ outcome = "converged"
    /\ Len(convergence_history) = 2
    /\ returned.size = 40
    /\ returned.result = Num(0)

\* C18: when an invocation of computation_func raises, the call ends there
\* with that exception: it is the call's last invocation, nothing is
\* returned, no warning is made, and the step leaves convergence_history as
\* the earlier iterations made it.
C18_ComputeExceptionPropagates ==
    /\ [](invoked # <<>> =>
            /\ \A k \in 1..(Len(invoked) - 1) : ResultAt(k) # Raises
            /\ ResultAt(Len(invoked)) = Raises
                   <=> (Done /\ outcome = "ComputeError")
            /\ outcome = "ComputeError"
                   => (warned = 0 /\ returned = NoReturn))
    /\ [][(outcome' = "ComputeError" /\ outcome # "ComputeError")
              => convergence_history' = convergence_history]_vars
    /\ [][outcome = "ComputeError"
              => (invoked' = <<>> /\ ncalls' = ncalls + 1
                     /\ convergence_history' = convergence_history)]_vars

C18_Witness ==
    /\ Done
    /\ outcome = "ComputeError"
    /\ invoked = <<10, 20, 40>>
    /\ Len(AppendedByCall) = 1
    /\ ncalls = 1

ErrorIsBelow(e, tol) ==
    \/ e.k = "abs" /\ e.val < tol
    \/ e.k = "norm" /\ tol > 0 /\ e.sq < tol * tol
    \/ e.k = "vec" /\ Len(e.vec) = 1 /\ e.vec[1] < tol

\* C20: of the records a call appends, none but the last has an error below
\* tolerance, and the last has one exactly when the call returned through
\* the success path.
C20_OnlyLastRecordBelowTolerance ==
    /\ \A j \in 1..(Len(AppendedByCall) - 1) :
           ~ErrorIsBelow(AppendedByCall[j].error, tolerance)
    /\ AppendedByCall # <<>> =>
           (ErrorIsBelow(AppendedByCall[Len(AppendedByCall)].error, tolerance)
               <=> outcome = "converged")
    /\ outcome = "converged" => AppendedByCall # <<>>

C20_Witness ==
    /\ outcome = "converged"
    /\ Len(AppendedByCall) = 2
    /\ tolerance = 1
    /\ AppendedByCall[1].error = AbsError(1)
    /\ AppendedByCall[2].error = AbsError(0)

Injective(f) ==
    \A s1, s2 \in DOMAIN f : f[s1] = f[s2] => s1 = s2

C22_NoConvergenceOnFirstIteration ==
    /\ Len(invoked) <= 1 =>
           (outcome # "converged" /\ AppendedByCall = <<>>)
    /\ outcome = "converged" =>
           (Len(invoked) >= 2 /\ returned.size >= 20)
    /\ (Done /\ max_iterations = 1) =>
           /\ invoked = <<10>>
           /\ AppendedByCall = <<>>
           /\ IF computation_func[10] = Raises
              THEN outcome = "ComputeError"
              ELSE /\ outcome = "exhausted"
                   /\ warned = 1
                   /\ returned = [result |-> computation_func[10],
                                  size |-> 20]

C22_Witness ==
    /\ Done
    /\ max_iterations = 1
    /\ computation_func[10] = Num(0)
    /\ tolerance = 2
    /\ outcome = "exhausted"
    /\ warned = 1
    /\ convergence_history = <<>>

\* C23: a call with max_iterations <= 0 never invokes computation_func and
\* appends nothing to convergence_history; it warns once and then ends in
\* an UnboundLocalError, returning no pair.
C23_NoIterationsIsUnboundError ==
    (pc # "idle" /\ max_iterations <= 0) =>
        /\ invoked = <<>>
        /\ AppendedByCall = <<>>
        /\ current_result = Unbound
        /\ pc = "loop" => (ENABLED Exhaust /\ ~ENABLED Iterate)
        /\ Done => /\ warned = 1
                   /\ outcome = "UnboundLocalError"
                   /\ returned = NoReturn

C23_Witness ==
    /\ Done
    /\ max_iterations = -1
    /\ invoked = <<>>
    /\ warned = 1
    /\ outcome = "UnboundLocalError"

\* history is not empty and ends with current_state
InSync == history # <<>> /\ history[Len(history)] = current_state

\* The last call on the framework was simulate_cycle(duration) for a
\* duration of at least least
Simulated(least) ==
    last_call.name = "simulate_cycle" /\ last_call.args[1] >= least

\* C24 (as claimed): after dimensional_transition(target_dimension, method)
\* the dimension of current_state is target_dimension, and the first state
\* of the returned path has the dimension current_state had before the call.
C24_TransitionReachesTarget ==
    last_call.name = "dimensional_transition" =>
        /\ current_state.dimension = last_call.args[1]
        /\ last_return.value[1].dimension = last_call.state_before.dimension

\* C25: dimensional_transition returns a path that is not empty, leaves
\* current_state at the last state of that path, and leaves history as it
\* was before the call followed by the states of the path in their order.
C25_TransitionExtendsHistoryByPath ==
    last_call.name = "dimensional_transition" =>
        LET path == last_return.value
            before == last_call.history_before
        IN  /\ last_return.kind = "path"
            /\ Len(path) >= 1
            /\ current_state = path[Len(path)]
            /\ Len(history) = Len(before) + Len(path)
            /\ \A i \in 1..Len(before) : history[i] = before[i]
            /\ \A i \in 1..Len(path) : history[Len(before) + i] = path[i]

C25_Witness ==
    /\ last_call.name = "dimensional_transition"
    /\ last_call.args = <<Whole(0), "gradual">>
    /\ Len(last_call.history_before) = 3
    /\ Len(last_return.value) = 4
    /\ Len(history) = 7

\* C26 (as claimed): in every reachable state history is not empty and its
\* last element is current_state.
C26_HistoryEndsWithCurrentState == InSync

\* C26 (amended): history is never empty; it ends with current_state after
\* __init__ and after every dimensional_transition; return_dynamics,
\* emanation_pattern and emergence_measure change neither field; and
\* simulate_cycle leaves history as it was while it replaces current_state
\* by a state history does not end with.
C26_HistoryEndsWithLastTransition ==
    /\ history # <<>>
    /\ last_call.name \in {"__init__", "dimensional_transition"} => InSync
    /\ last_call.name \in {"return_dynamics", "emanation_pattern",
                           "emergence_measure"} =>
           /\ history = last_call.history_before
           /\ current_state = last_call.state_before
    /\ last_call.name = "simulate_cycle" =>
           /\ history = last_call.history_before
           /\ ~InSync

C26_Witness ==
    /\ Simulated(2)
    /\ Len(history) > 1
    /\ last_call.state_before = history[Len(history)]
    /\ current_state # history[Len(history)]

\* C27 (as claimed): simulate_cycle(duration) with duration >= 1 returns,
\* and each of the five lists it returns has duration entries.
C27_SimulateReturnsDurationEntries ==
    Simulated(1) =>
        /\ last_return.kind = "metrics"
        /\ \A key \in {"dimension", "complexity", "coherence",
                       "unity_distance", "emergence_potential"} :
               Len(last_return.value[key]) = last_call.args[1]

NonNegative(x) == RLeq(Whole(0), x)

\* C28: in the metrics of simulate_cycle(duration), duration >= 2, the
\* dimensions start at 0, do not decrease over the first duration // 2
\* steps and do not increase over the remaining ones, over which the
\* coherences do not decrease and stay at most 1.  Each remaining step is a
\* return_dynamics call: such a call, for a dimension that is not negative,
\* returns a dimension that is not larger and a coherence of at most 1 that
\* is not smaller than the one of current_state.
C28_EmanationThenReturn ==
    /\ Simulated(2) =>
           LET duration == last_call.args[1]
               half == duration \div 2
               dims == last_return.value.dimension
               cohs == last_return.value.coherence
           IN  /\ last_return.kind = "metrics"
               /\ Len(dims) = duration /\ Len(cohs) = duration
               /\ dims[1] = Whole(0)
               /\ \A i \in 1..(half - 1) : RLeq(dims[i], dims[i + 1])
               /\ \A i \in (half + 1)..(duration - 1) :
                      /\ RLeq(dims[i + 1], dims[i])
                      /\ RLeq(cohs[i], cohs[i + 1])
               /\ \A i \in (half + 1)..duration : RLeq(cohs[i], Whole(1))
    /\ last_call.name = "return_dynamics" =>
           /\ RLeq(last_return.value.dimension, last_call.args[1])
           /\ NonNegative(last_return.value.dimension)
           /\ RLeq(last_return.value.coherence, Whole(1))
           /\ RLeq(RMin(Whole(1), current_state.coherence),
                   last_return.value.coherence)

C28_Witness ==
    /\ Simulated(6)
    /\ last_return.kind = "metrics"
    /\ last_return.value.dimension[2] = Whole(4)
    /\ last_return.value.dimension[3] = Whole(8)
    /\ last_return.value.dimension[4] = Whole(8)
    /\ RLess(last_return.value.dimension[6], last_return.value.dimension[5])
    /\ RLess(last_return.value.coherence[5], last_return.value.coherence[6])

====
